---- MODULE Spec2Model ----
(***************************************************************************)
(* A model of the socks5-server repository: the SOCKS5 wire codec          *)
(* (src/src/socks5.rs), the per-connection handlers Server::proxy          *)
(* (src/src/server.rs), handle (src/src/a.rs) and SocksLite::forward       *)
(* (src/src/b.rs), and the accept loops that spawn them.                   *)
(*                                                                         *)
(* Bytes are the naturals 0..255, byte strings are sequences of bytes.     *)
(***************************************************************************)
EXTENDS Integers, Sequences, FiniteSets, TLC

VARIABLES
    prog,       \* which program runs: "server" (server.rs), "a", "b", "main"
    wide,       \* TRUE: the clients draw from the full input sets
    limit,      \* how many connections the clients open in this run
    lpc,        \* position of the accept loop: "accept", "await", "stopped"
    awaited,    \* server.rs: the connection whose task the loop awaits (0: none)
    naccepted,  \* number of connections accepted so far
    pc,         \* pc[c]: position of connection c's handler
    loc,        \* loc[c]: the handler's locals (methods, header, e, dest_addr)
    wlog,       \* wlog[c]: the writes the handler issued, in order
    hist,       \* hist[c]: the handler's steps, in order
    result,     \* result[c]: what the handler returned to its task
    csock,      \* csock[c]: state of the client socket
    dsock,      \* dsock[c]: state of the outbound socket
    up,         \* up[c]: client -> destination byte flow
    down,       \* down[c]: destination -> client byte flow
    job,        \* codec run: the input of the codec operation
    out         \* codec run: the stage and the results of the codec operation

vars == <<prog, wide, limit, lpc, awaited, naccepted, pc, loc, wlog, hist,
          result, csock, dsock, up, down, job, out>>

loopvars == <<prog, wide, limit, lpc, awaited, naccepted>>

connvars == <<pc, loc, wlog, hist, result, csock, dsock, up, down>>

codecvars == <<job, out>>

\* What no step of a handler or of a peer changes.
outside == <<loopvars, codecvars>>

(***************************************************************************)
(* Bounds of the model.                                                    *)
(***************************************************************************)
MaxConns == 2       \* connections opened in a run of SpecServer
MaxPayload == 2     \* bytes each peer sends during the relay
MaxTail == 1        \* bytes that follow an encoded address in a codec run
MaxMethods == 3     \* methods of the enumerated authentication requests

VERSION == 5
U8_MAX == 255

Conns == 1..MaxConns

(***************************************************************************)
(* Big-endian u16, as BufMut::put_u16 / Buf::get_u16.                      *)
(***************************************************************************)
put_u16(n) == <<(n \div 256) % 256, n % 256>>

\* A port read low byte first, as get_u16_le would.
get_u16_le(s, i) == s[i + 1] * 256 + s[i]

\* socks5.rs 214, 237, 258: Buf::get_u16, big-endian.
get_u16(s, i) == s[i] * 256 + s[i + 1]

Take(s, n) == SubSeq(s, 1, n)

Drop(s, n) == SubSeq(s, n + 1, Len(s))

RECURSIVE Flat16(_)
Flat16(segs) ==
    IF segs = <<>> THEN <<>> ELSE put_u16(Head(segs)) \o Flat16(Tail(segs))

Fill(n, b) == [i \in 1..n |-> b]

(***************************************************************************)
(* String::from_utf8: whether a byte string is well-formed UTF-8.  Every   *)
(* byte is either the lead byte of a well-formed character that fits the   *)
(* string, or a continuation byte that a lead byte before it accounts for. *)
(***************************************************************************)
IsCont(b) == b >= 128 /\ b <= 191

\* The length of the character a lead byte announces; 0: not a lead byte.
Utf8Width(b) ==
    CASE b < 128 -> 1
      [] b >= 194 /\ b <= 223 -> 2
      [] b >= 224 /\ b <= 239 -> 3
      [] b >= 240 /\ b <= 244 -> 4
      [] OTHER -> 0

\* The range of the byte that follows lead byte b (no overlong forms, no
\* surrogates, nothing above U+10FFFF).
Utf8Second(b, x) ==
    CASE b = 224 -> x >= 160 /\ x <= 191
      [] b = 237 -> x >= 128 /\ x <= 159
      [] b = 240 -> x >= 144 /\ x <= 191
      [] b = 244 -> x >= 128 /\ x <= 143
      [] OTHER -> IsCont(x)

from_utf8_ok(s) ==
    \A i \in 1..Len(s) :
        LET w == Utf8Width(s[i])
        IN  IF IsCont(s[i])
            THEN \E k \in 1..3 :
                    /\ i - k >= 1
                    /\ Utf8Width(s[i - k]) > k
                    /\ \A j \in 1..(k - 1) : IsCont(s[i - j])
            ELSE /\ w >= 1
                 /\ i + w - 1 <= Len(s)
                 /\ w >= 2 => Utf8Second(s[i], s[i + 1])
                 /\ \A j \in 2..(w - 1) : IsCont(s[i + j])

(***************************************************************************)
(* Method (socks5.rs 22-58), Command (60-75) and Replies (77-126).  A      *)
(* variant is [tag, c]; c is the payload of InvalidMethod / OtherReply.    *)
(***************************************************************************)
Method(tag) == [tag |-> tag, c |-> 0]

Method_from_u8(code) ==
    CASE code = 0 -> Method("None")
      [] code = 1 -> Method("GssApi")
      [] code = 2 -> Method("Password")
      [] code = 255 -> Method("NotAcceptable")
      [] OTHER -> [tag |-> "InvalidMethod", c |-> code]

is_invalid_method(m) == m.tag = "InvalidMethod"

\* An encoder that wrote every unrecognized method as 0xff.
Method_as_u8_lossy(m) ==
    CASE m.tag = "None" -> 0
      [] m.tag = "GssApi" -> 1
      [] m.tag = "Password" -> 2
      [] OTHER -> 255

Method_as_u8(m) ==
    CASE m.tag = "None" -> 0
      [] m.tag = "GssApi" -> 1
      [] m.tag = "Password" -> 2
      [] m.tag = "NotAcceptable" -> 255
      [] m.tag = "InvalidMethod" -> m.c

Command_from_u8(code) ==
    CASE code = 1 -> "Connect"
      [] code = 2 -> "Bind"
      [] code = 3 -> "UdpAssociate"
      [] OTHER -> "None"

Reply(tag) == [tag |-> tag, c |-> 0]

NoReply == Reply("NoReply")

Replies_as_u8(r) ==
    CASE r.tag = "Succeeded" -> 0
      [] r.tag = "GeneralFailure" -> 1
      [] r.tag = "ConnectionNotAllowed" -> 2
      [] r.tag = "NetworkUnreachable" -> 3
      [] r.tag = "HostUnreachable" -> 4
      [] r.tag = "ConnectionRefused" -> 5
      [] r.tag = "TtlExpired" -> 6
      [] r.tag = "CommandNotSupported" -> 7
      [] r.tag = "AddressTypeNotSupported" -> 8
      [] r.tag = "OtherReply" -> r.c

Replies_from_u8(code) ==
    CASE code = 0 -> Reply("Succeeded")
      [] code = 1 -> Reply("GeneralFailure")
      [] code = 2 -> Reply("ConnectionNotAllowed")
      [] code = 3 -> Reply("NetworkUnreachable")
      [] code = 4 -> Reply("HostUnreachable")
      [] code = 5 -> Reply("ConnectionRefused")
      [] code = 6 -> Reply("TtlExpired")
      [] code = 7 -> Reply("CommandNotSupported")
      [] code = 8 -> Reply("AddressTypeNotSupported")
      [] OTHER -> [tag |-> "OtherReply", c |-> code]

(***************************************************************************)
(* Address (socks5.rs 175-181).  One record shape for the three variants:  *)
(* t = "v4": ip holds the 4 octets; t = "v6": ip holds the 8 segments and  *)
(* flowinfo / scope_id are those of the SocketAddrV6; t = "dn": name holds *)
(* the bytes of the String.  t = "none" is the absent address.             *)
(***************************************************************************)
SocketAddrV4(ip, port) ==
    [t |-> "v4", ip |-> ip, port |-> port, flowinfo |-> 0, scope_id |-> 0,
     name |-> <<>>]

SocketAddrV6(segs, port, flowinfo, scope_id) ==
    [t |-> "v6", ip |-> segs, port |-> port, flowinfo |-> flowinfo,
     scope_id |-> scope_id, name |-> <<>>]

DomainNameAddress(name, port) ==
    [t |-> "dn", ip |-> <<>>, port |-> port, flowinfo |-> 0, scope_id |-> 0,
     name |-> name]

NoAddress ==
    [t |-> "none", ip |-> <<>>, port |-> 0, flowinfo |-> 0, scope_id |-> 0,
     name |-> <<>>]

(***************************************************************************)
(* AddressType (socks5.rs 401-421).                                        *)
(***************************************************************************)
\* A decoder that took the address-type byte 0 for an IPv4 address.
AddressType_from_u8_zero(code) ==
    CASE code = 1 \/ code = 0 -> "Ipv4"
      [] code = 3 -> "DomainName"
      [] code = 4 -> "Ipv6"
      [] OTHER -> "None"

AddressType_from_u8(code) ==
    CASE code = 1 -> "Ipv4"
      [] code = 3 -> "DomainName"
      [] code = 4 -> "Ipv6"
      [] OTHER -> "None"

AddressType_as_u8(t) ==
    CASE t = "Ipv4" -> 1
      [] t = "DomainName" -> 3
      [] t = "Ipv6" -> 4

(***************************************************************************)
(* Encoding.  A result is [panic, bytes]: write_domain_name_address        *)
(* asserts that the name fits the one length byte.                         *)
(***************************************************************************)
write_ipv4_address(addr) ==
    [panic |-> FALSE,
     bytes |-> <<AddressType_as_u8("Ipv4")>> \o addr.ip \o put_u16(addr.port)]

write_ipv6_address(addr) ==
    [panic |-> FALSE,
     bytes |-> <<AddressType_as_u8("Ipv6")>> \o Flat16(addr.ip)
               \o put_u16(addr.port)]

\* An assertion one byte too strict.
write_domain_name_address_strict(dnaddr, port) ==
    IF Len(dnaddr) < U8_MAX
    THEN [panic |-> FALSE,
          bytes |-> <<AddressType_as_u8("DomainName"), Len(dnaddr) % 256>>
                    \o dnaddr \o put_u16(port)]
    ELSE [panic |-> TRUE, bytes |-> <<>>]

write_domain_name_address(dnaddr, port) ==
    IF Len(dnaddr) <= U8_MAX
    THEN [panic |-> FALSE,
          bytes |-> <<AddressType_as_u8("DomainName"), Len(dnaddr) % 256>>
                    \o dnaddr \o put_u16(port)]
    ELSE [panic |-> TRUE, bytes |-> <<>>]

write_socket_address(addr) ==
    IF addr.t = "v4" THEN write_ipv4_address(addr) ELSE write_ipv6_address(addr)

write_address(addr) ==
    IF addr.t = "dn" THEN write_domain_name_address(addr.name, addr.port)
    ELSE write_socket_address(addr)

Address_to_bytes(addr) == write_address(addr)

\* A length that forgot the length byte of a domain name.
Address_len_short(addr) ==
    CASE addr.t = "v4" -> 1 + 4 + 2
      [] addr.t = "v6" -> 1 + 8 * 2 + 2
      [] addr.t = "dn" -> 1 + Len(addr.name) + 2

Address_len(addr) ==
    CASE addr.t = "v4" -> 1 + 4 + 2
      [] addr.t = "v6" -> 1 + 8 * 2 + 2
      [] addr.t = "dn" -> 1 + 1 + Len(addr.name) + 2

(***************************************************************************)
(* Decoding.  A decoder takes the bytes the stream will deliver before its *)
(* end and returns [ok, val, reply, io, rest]: ok with the value, or the   *)
(* Error's reply code; io marks an Error converted from an io::Error; rest *)
(* is what the decoder left unread.                                        *)
(***************************************************************************)
Ok(val, rest) ==
    [ok |-> TRUE, val |-> val, reply |-> NoReply, io |-> FALSE, rest |-> rest]

Err(reply, rest) ==
    [ok |-> FALSE, val |-> NoAddress, reply |-> reply, io |-> FALSE,
     rest |-> rest]

\* impl From<io::Error> for Error: read_exact met the end of the stream.
IoErr ==
    [ok |-> FALSE, val |-> NoAddress, reply |-> Reply("GeneralFailure"),
     io |-> TRUE, rest |-> <<>>]

read_ipv4(s) ==
    IF Len(s) < 6 THEN IoErr
    ELSE Ok(SocketAddrV4(Take(s, 4), get_u16(s, 5)), Drop(s, 6))

read_ipv6(s) ==
    IF Len(s) < 18 THEN IoErr
    ELSE Ok(SocketAddrV6([i \in 1..8 |-> get_u16(s, 2 * i - 1)],
                         get_u16(s, 17), 0, 0),
            Drop(s, 18))

\* A decoder that built the address from the bytes that did arrive.
read_domain_short(s) ==
    IF Len(s) < 1 THEN IoErr
    ELSE LET length == s[1]
             buf_length == length + 2
             body == Drop(s, 1)
             have == IF Len(body) < length THEN Len(body) ELSE length
         IN  IF Len(body) < buf_length
             THEN Ok(DomainNameAddress(Take(body, have), 0), <<>>)
             ELSE IF ~from_utf8_ok(Take(body, length))
                  THEN Err(Reply("GeneralFailure"), Drop(body, buf_length))
             ELSE Ok(DomainNameAddress(Take(body, length),
                                       get_u16(body, length + 1)),
                     Drop(body, buf_length))

read_domain(s) ==
    IF Len(s) < 1 THEN IoErr
    ELSE LET length == s[1]
             buf_length == length + 2
             body == Drop(s, 1)
         IN  IF Len(body) < buf_length THEN IoErr
             ELSE IF ~from_utf8_ok(Take(body, length))
                  THEN Err(Reply("GeneralFailure"), Drop(body, buf_length))
             ELSE Ok(DomainNameAddress(Take(body, length),
                                       get_u16(body, length + 1)),
                     Drop(body, buf_length))

Address_read_from(s) ==
    IF Len(s) < 1 THEN IoErr
    ELSE LET addr_type == AddressType_from_u8(s[1])
             body == Drop(s, 1)
         IN  CASE addr_type = "None" -> Err(Reply("AddressTypeNotSupported"), body)
               [] addr_type = "Ipv4" -> read_ipv4(body)
               [] addr_type = "Ipv6" -> read_ipv6(body)
               [] addr_type = "DomainName" -> read_domain(body)

(***************************************************************************)
(* TcpRequestHeader (socks5.rs 432-470).  The value of a successful decode *)
(* is [command, address].                                                  *)
(***************************************************************************)
NoHeader == [command |-> "None", address |-> NoAddress]

HOk(h, rest) ==
    [ok |-> TRUE, val |-> h, reply |-> NoReply, io |-> FALSE, rest |-> rest]

HErr(e) ==
    [ok |-> FALSE, val |-> NoHeader, reply |-> e.reply, io |-> e.io,
     rest |-> e.rest]

\* A decoder that looked at the command before the version.
TcpRequestHeader_read_from_cmd_first(s) ==
    IF Len(s) < 3 THEN HErr(IoErr)
    ELSE LET ver == s[1]
             cmd == s[2]
             command == Command_from_u8(cmd)
             body == Drop(s, 3)
         IN  IF command = "None"
             THEN HErr(Err(Reply("CommandNotSupported"), body))
             ELSE IF ver # VERSION
                  THEN HErr(Err(Reply("ConnectionRefused"), body))
             ELSE LET a == Address_read_from(body)
                  IN  IF a.ok
                      THEN HOk([command |-> command, address |-> a.val], a.rest)
                      ELSE HErr(a)

TcpRequestHeader_read_from(s) ==
    IF Len(s) < 3 THEN HErr(IoErr)
    ELSE LET ver == s[1]
             cmd == s[2]
             command == Command_from_u8(cmd)
             body == Drop(s, 3)
         IN  IF ver # VERSION THEN HErr(Err(Reply("ConnectionRefused"), body))
             ELSE IF command = "None"
                  THEN HErr(Err(Reply("CommandNotSupported"), body))
             ELSE LET a == Address_read_from(body)
                  IN  IF a.ok
                      THEN HOk([command |-> command, address |-> a.val], a.rest)
                      ELSE HErr(a)

(***************************************************************************)
(* TcpResponseHeader (socks5.rs 481-531): [reply, address].                *)
(***************************************************************************)
into_response(reply, address) == [reply |-> reply, address |-> address]

\* An encoder that left the reserved byte out.
TcpResponseHeader_to_bytes_no_rsv(h) ==
    LET a == Address_to_bytes(h.address)
    IN  [panic |-> a.panic,
         bytes |-> IF a.panic THEN <<>>
                   ELSE <<VERSION, Replies_as_u8(h.reply)>> \o a.bytes]

TcpResponseHeader_to_bytes(h) ==
    LET a == Address_to_bytes(h.address)
    IN  [panic |-> a.panic,
         bytes |-> IF a.panic THEN <<>>
                   ELSE <<VERSION, Replies_as_u8(h.reply), 0>> \o a.bytes]

NoResponse == [reply |-> NoReply, address |-> NoAddress]

TcpResponseHeader_read_from(s) ==
    IF Len(s) < 3
    THEN [ok |-> FALSE, val |-> NoResponse, reply |-> IoErr.reply,
          io |-> TRUE, rest |-> <<>>]
    ELSE LET ver == s[1]
             reply_code == s[2]
             body == Drop(s, 3)
             a == Address_read_from(body)
         IN  IF ver # VERSION
             THEN [ok |-> FALSE, val |-> NoResponse,
                   reply |-> Reply("ConnectionRefused"), io |-> FALSE,
                   rest |-> body]
             ELSE IF ~a.ok
             THEN [ok |-> FALSE, val |-> NoResponse, reply |-> a.reply,
                   io |-> a.io, rest |-> a.rest]
             ELSE [ok |-> TRUE,
                   val |-> [reply |-> Replies_from_u8(reply_code),
                            address |-> a.val],
                   reply |-> NoReply, io |-> FALSE, rest |-> a.rest]

(***************************************************************************)
(* AuthenticationRequest / AuthenticationResponse (socks5.rs 542-608).     *)
(* A decode result is [ok, methods, kind, rest]; kind is the io::ErrorKind *)
(* of a failure.                                                           *)
(***************************************************************************)
AuthErr(kind, rest) ==
    [ok |-> FALSE, methods |-> <<>>, kind |-> kind, rest |-> rest]

\* A decoder that read the methods before it looked at the version.
AuthenticationRequest_read_from_late(s) ==
    IF Len(s) < 2 THEN AuthErr("UnexpectedEof", <<>>)
    ELSE LET ver == s[1]
             nmet == s[2]
             body == Drop(s, 2)
         IN  IF Len(body) < nmet THEN AuthErr("UnexpectedEof", <<>>)
             ELSE IF ver # VERSION THEN AuthErr("InvalidData", Drop(body, nmet))
             ELSE [ok |-> TRUE,
                   methods |-> SelectSeq([i \in 1..nmet |->
                                             Method_from_u8(body[i])],
                                         LAMBDA m : ~is_invalid_method(m)),
                   kind |-> "None",
                   rest |-> Drop(body, nmet)]

AuthenticationRequest_read_from(s) ==
    IF Len(s) < 2 THEN AuthErr("UnexpectedEof", <<>>)
    ELSE LET ver == s[1]
             nmet == s[2]
             body == Drop(s, 2)
             Valid(m) == ~is_invalid_method(m)
         IN  IF ver # VERSION THEN AuthErr("InvalidData", body)
             ELSE IF Len(body) < nmet THEN AuthErr("UnexpectedEof", <<>>)
             ELSE [ok |-> TRUE,
                   methods |-> SelectSeq([i \in 1..nmet |->
                                             Method_from_u8(body[i])], Valid),
                   kind |-> "None",
                   rest |-> Drop(body, nmet)]

\* A test that looked at the first offered method only.
required_authentication_first(methods) ==
    ~(Len(methods) >= 1 /\ methods[1] = Method("None"))

required_authentication(methods) ==
    ~(\E i \in 1..Len(methods) : methods[i] = Method("None"))

AuthenticationResponse_to_bytes(method) == <<VERSION, Method_as_u8(method)>>

(***************************************************************************)
(* What the peers send.  A client's frame is the bytes it sends before the *)
(* handler's next read returns; a frame that ends early is followed by the *)
(* end of the stream.                                                      *)
(***************************************************************************)
V4Bytes == <<1, 127, 0, 0, 1, 31, 144>>

V6Bytes == <<4>> \o Flat16(<<8193, 3512, 0, 0, 0, 0, 0, 1>>) \o <<1, 187>>

DnBytes == <<3, 1, 97, 0, 80>>

\* The longest domain name the one length byte can announce.
LongDnBytes == <<3, U8_MAX>> \o Fill(U8_MAX, 97) \o <<0, 80>>

AuthInputs ==
    IF wide
    THEN {<<5, 1, 0>>, <<5, 1, 2>>, <<5, 2, 2, 0>>, <<5, 0>>, <<5, 1, 128>>,
          <<4, 1, 0>>, <<5>>, <<5, 2, 0>>, <<4>>, <<0, 2, 0, 0>>}
    ELSE {<<5, 1, 0>>, <<5>>}

AddrInputs ==
    IF wide
    THEN {V4Bytes, V6Bytes, DnBytes, <<2, 0, 0>>, <<3, 1, 255, 0, 80>>,
          <<1, 127>>, <<3, 2, 97>>, <<>>, LongDnBytes}
    ELSE {V4Bytes, <<1, 127>>}

ReqInputs ==
    IF wide
    THEN {<<5, 1, 0>> \o V4Bytes, <<5, 1, 0>> \o V6Bytes,
          <<5, 1, 0>> \o DnBytes, <<5, 1, 9>> \o DnBytes,
          <<5, 2, 0>> \o V4Bytes, <<5, 2, 0>> \o DnBytes,
          <<5, 3, 0>> \o V6Bytes, <<5, 3, 0>> \o DnBytes,
          <<4, 1, 0>> \o V4Bytes, <<5, 9, 0>> \o V4Bytes,
          <<5, 1, 0, 2, 0, 0>>, <<5, 1, 0, 3, 1, 255, 0, 80>>,
          <<5, 1>>, <<5, 1, 0, 1, 127>>, <<5, 1, 0, 3, 2, 97>>,
          <<5, 1, 0>> \o LongDnBytes, <<5, 2, 0>> \o LongDnBytes}
    ELSE {<<5, 1, 0>> \o V4Bytes, <<5, 2, 0>> \o V4Bytes,
          <<4, 1, 0>> \o V4Bytes}

\* Outcomes of a write to the client: write_all fails, flush fails, or both
\* succeed.
WriteOutcomes == IF wide THEN {"ok", "write_err", "flush_err"} ELSE {"ok"}

\* Outcomes of TcpStream::connect.
ConnectOutcomes == IF wide THEN {"ok", "refused", "aborted", "other"}
                   ELSE {"ok", "refused"}

\* Outcomes of TcpStream::peer_addr: TRUE when it returns the address.
PeerOutcomes == IF wide THEN BOOLEAN ELSE {TRUE}

\* Bytes a peer sends during the relay.
PayloadCap == IF wide THEN MaxPayload ELSE 1

\* Outcomes of a name resolution.
DnsOutcomes == {"ok", "fail"}

ResolvedIp == <<93, 184, 216, 34>>

\* TcpStream::peer_addr of connection c's client socket.
PeerAddr(c) == SocketAddrV4(<<10, 0, 0, c>>, 40000 + c)

\* a.rs: the address of the second-stage server the front end connects to.
socks_b_addr == SocketAddrV4(<<127, 0, 0, 1>>, 1081)

(***************************************************************************)
(* The handlers' state.                                                    *)
(***************************************************************************)
\* auth_in / auth_res: the frame on which AuthenticationRequest::read_from
\* failed, and what it returned.
NoLoc ==
    [methods |-> <<>>, header |-> NoHeader, e |-> NoReply, e_io |-> FALSE,
     dest_addr |-> NoAddress, auth_in |-> <<>>,
     auth_res |-> AuthErr("None", <<>>)]

NoFlow == [sent |-> <<>>, eof |-> FALSE, got |-> <<>>]

Pending(f) == Drop(f.sent, Len(f.got))

\* One write the handler issues: kind "auth" / "resp" to the client, "addr"
\* to the outbound socket; res is its outcome, flush whether flush() ran.
W(kind, bytes, res, flush) ==
    [kind |-> kind, bytes |-> bytes, res |-> res, flush |-> flush]

\* Server::write (server.rs 102-105): write_all, then flush.
Server_write(kind, bytes, res) == W(kind, bytes, res, res # "write_err")

\* write_all alone (a.rs), write_buf alone (b.rs): no flush.
Plain_write(kind, bytes, res) ==
    W(kind, bytes, IF res = "ok" THEN "ok" ELSE "write_err", FALSE)

Goto(c, npc, evs, ws) ==
    /\ pc' = [pc EXCEPT ![c] = npc]
    /\ hist' = [hist EXCEPT ![c] = @ \o evs]
    /\ wlog' = [wlog EXCEPT ![c] = @ \o ws]
    /\ UNCHANGED <<result, csock>>

\* The handler returns: its stream and its outbound stream are dropped.
Return(c, res, evs, ws) ==
    /\ pc' = [pc EXCEPT ![c] = "done"]
    /\ hist' = [hist EXCEPT ![c] = @ \o evs \o <<"close">>]
    /\ wlog' = [wlog EXCEPT ![c] = @ \o ws]
    /\ result' = [result EXCEPT ![c] = res]
    /\ csock' = [csock EXCEPT ![c] = "closed"]
    /\ dsock' = [dsock EXCEPT ![c] = IF @ = "open" THEN "closed" ELSE @]

At(c, p, where) == prog = p /\ lpc # "stopped" /\ pc[c] = where

Resp(reply, address) == TcpResponseHeader_to_bytes(into_response(reply, address))

\* The result of a step that writes b and then returns okres: a failed
\* assertion in the encoder panics the task, a failed write returns its
\* io::Error through the ? operator.
Outcome(b, w, okres) ==
    IF b.panic THEN "Panic" ELSE IF w = "ok" THEN okres ELSE "Err:io"

Writes(b, wr) == IF b.panic THEN <<>> ELSE <<wr>>

(***************************************************************************)
(* The relay: two copy loops raced against each other.  A copy loop moves  *)
(* the bytes its source has delivered; it completes when it has moved all  *)
(* of them and the source has shut its write side, or on an I/O error.     *)
(***************************************************************************)
Complete(f) == f.eof /\ Pending(f) = <<>>

\* A copy loop that wrote its buffer from the start again after a partial
\* write.
CopyUp_again(c) ==
    /\ \E n \in 1..Len(Pending(up[c])) :
           up' = [up EXCEPT ![c].got = @ \o Take(up[c].sent, n)]
    /\ UNCHANGED <<pc, loc, wlog, hist, result, csock, dsock, down>>

CopyUp(c) ==
    /\ \E n \in 1..Len(Pending(up[c])) :
           up' = [up EXCEPT ![c].got = @ \o Take(Pending(up[c]), n)]
    /\ UNCHANGED <<pc, loc, wlog, hist, result, csock, dsock, down>>

CopyDown(c) ==
    /\ \E n \in 1..Len(Pending(down[c])) :
           down' = [down EXCEPT ![c].got = @ \o Take(Pending(down[c]), n)]
    /\ UNCHANGED <<pc, loc, wlog, hist, result, csock, dsock, up>>

\* A join of the two copy loops in place of the race: the relay ends only
\* when both directions have completed.
RaceEnds_join(c) ==
    (IF wide THEN {"error"} ELSE {})
        \cup (IF Complete(up[c]) /\ Complete(down[c])
              THEN {"eof_up", "eof_down"} ELSE {})

\* The ways the race can end in the current state.
RaceEnds(c) ==
    (IF wide THEN {"error"} ELSE {})
        \cup (IF Complete(up[c]) THEN {"eof_up"} ELSE {})
        \cup (IF Complete(down[c]) THEN {"eof_down"} ELSE {})

(***************************************************************************)
(* Server::run and Server::proxy (server.rs).                              *)
(***************************************************************************)
S_Accept(c) ==
    /\ prog = "server" /\ lpc = "accept"
    /\ c = naccepted + 1 /\ c <= limit
    /\ naccepted' = c
    /\ pc' = [pc EXCEPT ![c] = "s_auth_read"]
    /\ csock' = [csock EXCEPT ![c] = "open"]
    /\ lpc' = "await"
    /\ awaited' = c
    /\ UNCHANGED <<codecvars, prog, wide, limit, loc, wlog, hist, result, dsock, up, down>>

\* A loop that applied ? to the awaited handler's result.
S_Await_propagate ==
    /\ prog = "server" /\ lpc = "await"
    /\ pc[awaited] = "done"
    /\ lpc' = IF result[awaited] = "Ok" THEN "accept" ELSE "stopped"
    /\ awaited' = 0
    /\ UNCHANGED <<codecvars, prog, wide, limit, naccepted, connvars>>

\* server.rs 36: handler.await, whose value is dropped.
S_Await ==
    /\ prog = "server" /\ lpc = "await"
    /\ pc[awaited] = "done"
    /\ lpc' = "accept"
    /\ awaited' = 0
    /\ UNCHANGED <<codecvars, prog, wide, limit, naccepted, connvars>>

S_AcceptFail ==
    /\ prog = "server" /\ lpc = "accept"
    /\ lpc' = "stopped"
    /\ UNCHANGED <<codecvars, prog, wide, limit, awaited, naccepted, connvars>>

S_AuthRead(c) ==
    /\ At(c, "server", "s_auth_read")
    /\ \E s \in AuthInputs :
           LET r == AuthenticationRequest_read_from(s)
           IN  IF r.ok
               THEN /\ loc' = [loc EXCEPT ![c].methods = r.methods]
                    /\ Goto(c, "s_auth_write", <<"auth_read">>, <<>>)
                    /\ UNCHANGED dsock
               ELSE /\ Return(c, "Err:io", <<"auth_read">>, <<>>)
                    /\ loc' = [loc EXCEPT ![c].auth_in = s,
                                          ![c].auth_res = r]
    /\ UNCHANGED <<outside, up, down>>

AuthMethod(methods) ==
    IF required_authentication(methods) THEN Method("NotAcceptable")
    ELSE Method("None")

S_AuthWrite(c) ==
    /\ At(c, "server", "s_auth_write")
    /\ \E w \in WriteOutcomes :
           LET wr == Server_write("auth",
                        AuthenticationResponse_to_bytes(
                            AuthMethod(loc[c].methods)), w)
           IN  IF w = "ok"
               THEN Goto(c, "s_req_read", <<"auth_write">>, <<wr>>)
                    /\ UNCHANGED dsock
               ELSE Return(c, "Err:io", <<"auth_write">>, <<wr>>)
    /\ UNCHANGED <<outside, loc, up, down>>

S_ReqRead(c) ==
    /\ At(c, "server", "s_req_read")
    /\ \E s \in ReqInputs :
           LET r == TcpRequestHeader_read_from(s)
           IN  IF r.ok
               THEN /\ loc' = [loc EXCEPT ![c].header = r.val]
                    /\ Goto(c, IF r.val.command = "Connect" THEN "s_lookup"
                                ELSE "s_cmd", <<"req_read">>, <<>>)
               ELSE /\ loc' = [loc EXCEPT ![c].e = r.reply, ![c].e_io = r.io]
                    /\ Goto(c, "s_err", <<"req_read">>, <<>>)
    /\ UNCHANGED <<outside, dsock, up, down>>

\* A response that ignored the reply the decode error carries.
S_ErrResponse_general(c) == Resp(Reply("GeneralFailure"), PeerAddr(c))

\* server.rs 57-60: e.clone().reply.into_response(peer_addr.into())
S_ErrResponse(c) == Resp(loc[c].e, PeerAddr(c))

\* server.rs 55-63: peer_addr()?, then the response, then Err(e).
S_ErrReply(c) ==
    /\ At(c, "server", "s_err")
    /\ \E peer_ok \in PeerOutcomes, w \in WriteOutcomes :
           IF peer_ok
           THEN LET b == S_ErrResponse(c)
                IN  Return(c, Outcome(b, w, "Err:decode"),
                           <<"peer_addr", "resp_write">>,
                           Writes(b, Server_write("resp", b.bytes, w)))
           ELSE Return(c, "Err:io", <<"peer_addr">>, <<>>)
    /\ UNCHANGED <<outside, loc, up, down>>

\* The reply carried by the Error of a failed Address::lookup.
Address_lookup_reply == Reply("HostUnreachable")

\* A response that named the client's address instead of the requested one.
S_LookupResponse_peer(c) == Resp(Address_lookup_reply, PeerAddr(c))

\* server.rs 71: e.reply.into_response(addr.clone())
S_LookupResponse(c) == Resp(Address_lookup_reply, loc[c].header.address)

\* Address::lookup with Server::lookup as resolver: a socket address is
\* returned as it is, a domain name is resolved to its first address.
S_Lookup(c) ==
    /\ At(c, "server", "s_lookup")
    /\ LET addr == loc[c].header.address
       IN  IF addr.t # "dn"
           THEN /\ loc' = [loc EXCEPT ![c].dest_addr = addr]
                /\ Goto(c, "s_connect", <<"lookup">>, <<>>)
                /\ UNCHANGED dsock
           ELSE \E d \in DnsOutcomes, w \in WriteOutcomes :
                   IF d = "ok"
                   THEN /\ loc' = [loc EXCEPT ![c].dest_addr =
                                       SocketAddrV4(ResolvedIp, addr.port)]
                        /\ Goto(c, "s_connect", <<"lookup", "dns">>, <<>>)
                        /\ UNCHANGED dsock
                   ELSE LET b == S_LookupResponse(c)
                        IN  /\ Return(c, Outcome(b, w, "Err:lookup"),
                                      <<"lookup", "dns", "resp_write">>,
                                      Writes(b, Server_write("resp", b.bytes, w)))
                            /\ UNCHANGED loc
    /\ UNCHANGED <<outside, up, down>>

\* server.rs 76-82: connect; a failure is returned with no response.
S_Connect(c) ==
    /\ At(c, "server", "s_connect")
    /\ \E o \in ConnectOutcomes :
           IF o = "ok"
           THEN /\ dsock' = [dsock EXCEPT ![c] = "open"]
                /\ Goto(c, "s_reply", <<"connect">>, <<>>)
           ELSE Return(c, "Err:connect", <<"connect">>, <<>>)
    /\ UNCHANGED <<outside, loc, up, down>>

\* A reply that carried the requested address instead of the resolved one.
S_SuccessResponse_requested(c) == Resp(Reply("Succeeded"), loc[c].header.address)

\* server.rs 97-98: Server::reply's header, for (Succeeded, dest_addr).
S_SuccessResponse(c) == Resp(Reply("Succeeded"), loc[c].dest_addr)

\* server.rs 78: self.reply(Replies::Succeeded, dest_addr).await?
S_Reply(c) ==
    /\ At(c, "server", "s_reply")
    /\ \E w \in WriteOutcomes :
           LET b == S_SuccessResponse(c)
               wr == Server_write("resp", b.bytes, w)
           IN  IF ~b.panic /\ w = "ok"
               THEN Goto(c, "s_relay", <<"resp_write", "relay">>, <<wr>>)
                    /\ UNCHANGED dsock
               ELSE Return(c, Outcome(b, w, "Ok"), <<"resp_write">>,
                           Writes(b, wr))
    /\ UNCHANGED <<outside, loc, up, down>>

\* Copy loops started as soon as the destination is connected.
S_Relaying_early(c) ==
    prog = "server" /\ lpc # "stopped" /\ pc[c] \in {"s_reply", "s_relay"}

\* server.rs 84: the two copy loops run once the match has yielded dest_tcp.
S_Relaying(c) == At(c, "server", "s_relay")

S_CopyUp(c) == S_Relaying(c) /\ CopyUp(c) /\ UNCHANGED outside

S_CopyDown(c) == S_Relaying(c) /\ CopyDown(c) /\ UNCHANGED outside

\* A handler that answered a relay error with a failure response.
S_RelayEnd_answer(c) ==
    /\ S_Relaying(c)
    /\ \E how \in RaceEnds(c) :
           LET b == Resp(Reply("GeneralFailure"), loc[c].dest_addr)
           IN  Return(c, IF how = "error" THEN "Err:relay" ELSE "Ok", <<how>>,
                      IF how = "error"
                      THEN <<Server_write("resp", b.bytes, "ok")>> ELSE <<>>)
    /\ UNCHANGED <<outside, loc, up, down>>

\* server.rs 84-87: the race's first result is the handler's result.
S_RelayEnd(c) ==
    /\ S_Relaying(c)
    /\ \E how \in RaceEnds(c) :
           Return(c, IF how = "error" THEN "Err:relay" ELSE "Ok", <<how>>, <<>>)
    /\ UNCHANGED <<outside, loc, up, down>>

\* A rejection that named the client's address instead of the requested one.
S_CmdResponse_peer(c) == Resp(Reply("CommandNotSupported"), PeerAddr(c))

\* server.rs 91: Replies::CommandNotSupported.into_response(addr.clone())
S_CmdResponse(c) ==
    Resp(Reply("CommandNotSupported"), loc[c].header.address)

\* server.rs 90-93: Bind and UdpAssociate.
S_CmdNotSupported(c) ==
    /\ At(c, "server", "s_cmd")
    /\ \E w \in WriteOutcomes :
           LET b == S_CmdResponse(c)
           IN  Return(c, Outcome(b, w, "Ok"), <<"resp_write">>,
                      Writes(b, Server_write("resp", b.bytes, w)))
    /\ UNCHANGED <<outside, loc, up, down>>

(***************************************************************************)
(* run and handle (a.rs): the front end that hands each CONNECT to the     *)
(* second-stage server at socks_b_addr.                                    *)
(***************************************************************************)
A_Accept(c) ==
    /\ prog = "a" /\ lpc = "accept"
    /\ c = naccepted + 1 /\ c <= limit
    /\ naccepted' = c
    /\ pc' = [pc EXCEPT ![c] = "a_peer_addr"]
    /\ csock' = [csock EXCEPT ![c] = "open"]
    /\ UNCHANGED <<codecvars, prog, wide, limit, lpc, awaited, loc, wlog, hist, result,
                   dsock, up, down>>

A_AcceptFail ==
    /\ prog = "a" /\ lpc = "accept"
    /\ lpc' = "stopped"
    /\ UNCHANGED <<codecvars, prog, wide, limit, awaited, naccepted, connvars>>

\* a.rs 18: let client_addr = stream.peer_addr()?;
A_PeerAddr(c) ==
    /\ At(c, "a", "a_peer_addr")
    /\ \E peer_ok \in PeerOutcomes :
           IF peer_ok
           THEN Goto(c, "a_auth_read", <<"peer_addr">>, <<>>) /\ UNCHANGED dsock
           ELSE Return(c, "Err:io", <<"peer_addr">>, <<>>)
    /\ UNCHANGED <<outside, loc, up, down>>

A_AuthRead(c) ==
    /\ At(c, "a", "a_auth_read")
    /\ \E s \in AuthInputs :
           LET r == AuthenticationRequest_read_from(s)
           IN  IF r.ok
               THEN /\ loc' = [loc EXCEPT ![c].methods = r.methods]
                    /\ Goto(c, "a_auth_write", <<"auth_read">>, <<>>)
                    /\ UNCHANGED dsock
               ELSE /\ Return(c, "Err:io", <<"auth_read">>, <<>>)
                    /\ loc' = [loc EXCEPT ![c].auth_in = s,
                                          ![c].auth_res = r]
    /\ UNCHANGED <<outside, up, down>>

A_AuthWrite(c) ==
    /\ At(c, "a", "a_auth_write")
    /\ \E w \in WriteOutcomes :
           LET wr == Plain_write("auth",
                        AuthenticationResponse_to_bytes(
                            AuthMethod(loc[c].methods)), w)
           IN  IF w = "ok"
               THEN Goto(c, "a_req_read", <<"auth_write">>, <<wr>>)
                    /\ UNCHANGED dsock
               ELSE Return(c, "Err:io", <<"auth_write">>, <<wr>>)
    /\ UNCHANGED <<outside, loc, up, down>>

A_ReqRead(c) ==
    /\ At(c, "a", "a_req_read")
    /\ \E s \in ReqInputs :
           LET r == TcpRequestHeader_read_from(s)
           IN  IF r.ok
               THEN /\ loc' = [loc EXCEPT ![c].header = r.val]
                    /\ Goto(c, IF r.val.command = "Connect" THEN "a_connect"
                                ELSE "a_cmd", <<"req_read">>, <<>>)
               ELSE /\ loc' = [loc EXCEPT ![c].e = r.reply, ![c].e_io = r.io]
                    /\ Goto(c, "a_err", <<"req_read">>, <<>>)
    /\ UNCHANGED <<outside, dsock, up, down>>

\* a.rs 34-38: the response with client_addr, then Err(e).
A_ErrReply(c) ==
    /\ At(c, "a", "a_err")
    /\ \E w \in WriteOutcomes :
           LET b == Resp(loc[c].e, PeerAddr(c))
           IN  Return(c, Outcome(b, w, "Err:decode"), <<"resp_write">>,
                      Writes(b, Plain_write("resp", b.bytes, w)))
    /\ UNCHANGED <<outside, loc, up, down>>

\* a.rs 43: TcpStream::connect(socks_b_addr).await?
A_Connect(c) ==
    /\ At(c, "a", "a_connect")
    /\ \E o \in ConnectOutcomes :
           IF o = "ok"
           THEN /\ dsock' = [dsock EXCEPT ![c] = "open"]
                /\ loc' = [loc EXCEPT ![c].dest_addr = socks_b_addr]
                /\ Goto(c, "a_host_write", <<"connect">>, <<>>)
           ELSE /\ Return(c, "Err:connect", <<"connect">>, <<>>)
                /\ UNCHANGED loc
    /\ UNCHANGED <<outside, up, down>>

\* a.rs 45: host_w.write_all(&addr.to_bytes()).await?
A_HostWrite(c) ==
    /\ At(c, "a", "a_host_write")
    /\ \E w \in WriteOutcomes :
           LET b == Address_to_bytes(loc[c].header.address)
               wr == Plain_write("addr", b.bytes, w)
           IN  IF ~b.panic /\ w = "ok"
               THEN Goto(c, "a_relay", <<"host_write", "relay">>, <<wr>>)
                    /\ UNCHANGED dsock
               ELSE Return(c, Outcome(b, w, "Ok"), <<"host_write">>,
                           Writes(b, wr))
    /\ UNCHANGED <<outside, loc, up, down>>

A_CopyUp(c) == At(c, "a", "a_relay") /\ CopyUp(c) /\ UNCHANGED outside

A_CopyDown(c) == At(c, "a", "a_relay") /\ CopyDown(c) /\ UNCHANGED outside

\* a.rs 46-54: select(...).await; the result is dropped, then Ok(()).
A_RelayEnd(c) ==
    /\ At(c, "a", "a_relay")
    /\ \E how \in RaceEnds(c) : Return(c, "Ok", <<how>>, <<>>)
    /\ UNCHANGED <<outside, loc, up, down>>

\* a.rs 49-52: Bind and UdpAssociate.
A_CmdNotSupported(c) ==
    /\ At(c, "a", "a_cmd")
    /\ \E w \in WriteOutcomes :
           LET b == Resp(Reply("CommandNotSupported"), loc[c].header.address)
           IN  Return(c, Outcome(b, w, "Ok"), <<"resp_write">>,
                      Writes(b, Plain_write("resp", b.bytes, w)))
    /\ UNCHANGED <<outside, loc, up, down>>

(***************************************************************************)
(* run and SocksLite::forward (b.rs): the second-stage forwarder.          *)
(***************************************************************************)
\* The Replies value an io::Error of connect converts to.
Replies_from_io_error(o) ==
    CASE o = "refused" -> Reply("ConnectionRefused")
      [] o = "aborted" -> Reply("HostUnreachable")
      [] OTHER -> Reply("NetworkUnreachable")

B_Accept(c) ==
    /\ prog = "b" /\ lpc = "accept"
    /\ c = naccepted + 1 /\ c <= limit
    /\ naccepted' = c
    /\ pc' = [pc EXCEPT ![c] = "b_get_addr"]
    /\ csock' = [csock EXCEPT ![c] = "open"]
    /\ UNCHANGED <<codecvars, prog, wide, limit, lpc, awaited, loc, wlog, hist, result,
                   dsock, up, down>>

B_AcceptFail ==
    /\ prog = "b" /\ lpc = "accept"
    /\ lpc' = "stopped"
    /\ UNCHANGED <<codecvars, prog, wide, limit, awaited, naccepted, connvars>>

\* b.rs 25-28 and 37: Address::read_from(..)?, then to_socket_addrs()?;
\* both failures leave forward with no reply.
B_GetAddr(c) ==
    /\ At(c, "b", "b_get_addr")
    /\ \E s \in AddrInputs, d \in DnsOutcomes :
           LET r == Address_read_from(s)
           IN  IF ~r.ok
               THEN /\ loc' = [loc EXCEPT ![c].e = r.reply, ![c].e_io = r.io]
                    /\ Return(c, "Err:decode", <<"addr_read">>, <<>>)
               ELSE IF r.val.t # "dn"
               THEN /\ loc' = [loc EXCEPT ![c].header.address = r.val,
                                          ![c].dest_addr = r.val]
                    /\ Goto(c, "b_connect", <<"addr_read", "lookup">>, <<>>)
                    /\ UNCHANGED dsock
               ELSE IF d = "ok"
               THEN /\ loc' = [loc EXCEPT ![c].header.address = r.val,
                                          ![c].dest_addr =
                                       SocketAddrV4(ResolvedIp, r.val.port)]
                    /\ Goto(c, "b_connect",
                            <<"addr_read", "lookup", "dns">>, <<>>)
                    /\ UNCHANGED dsock
               ELSE /\ loc' = [loc EXCEPT ![c].header.address = r.val]
                    /\ Return(c, "Err:lookup",
                              <<"addr_read", "lookup", "dns">>, <<>>)
    /\ UNCHANGED <<outside, up, down>>

\* b.rs 38-48: connect; a failure is answered with its reply code.
B_Connect(c) ==
    /\ At(c, "b", "b_connect")
    /\ \E o \in ConnectOutcomes, w \in WriteOutcomes :
           IF o = "ok"
           THEN /\ dsock' = [dsock EXCEPT ![c] = "open"]
                /\ Goto(c, "b_reply", <<"connect">>, <<>>)
           ELSE LET b == Resp(Replies_from_io_error(o), loc[c].dest_addr)
                IN  Return(c, Outcome(b, w, "Err:connect"),
                           <<"connect", "resp_write">>,
                           Writes(b, Plain_write("resp", b.bytes, w)))
    /\ UNCHANGED <<outside, loc, up, down>>

\* b.rs 40: self.reply(Replies::Succeeded, addr).await?
B_Reply(c) ==
    /\ At(c, "b", "b_reply")
    /\ \E w \in WriteOutcomes :
           LET b == Resp(Reply("Succeeded"), loc[c].dest_addr)
               wr == Plain_write("resp", b.bytes, w)
           IN  IF ~b.panic /\ w = "ok"
               THEN Goto(c, "b_relay", <<"resp_write", "relay">>, <<wr>>)
                    /\ UNCHANGED dsock
               ELSE Return(c, Outcome(b, w, "Ok"), <<"resp_write">>,
                           Writes(b, wr))
    /\ UNCHANGED <<outside, loc, up, down>>

B_CopyUp(c) == At(c, "b", "b_relay") /\ CopyUp(c) /\ UNCHANGED outside

B_CopyDown(c) == At(c, "b", "b_relay") /\ CopyDown(c) /\ UNCHANGED outside

\* b.rs 49-52: select(...).await; the result is dropped, then Ok(()).
B_RelayEnd(c) ==
    /\ At(c, "b", "b_relay")
    /\ \E how \in RaceEnds(c) : Return(c, "Ok", <<how>>, <<>>)
    /\ UNCHANGED <<outside, loc, up, down>>

(***************************************************************************)
(* run (main.rs) and the library's proxy(stream, src) it spawns.  The      *)
(* accept loop is main.rs; proxy is outside the source tree and follows    *)
(* the connection state machine of the design (section 4.4).               *)
(***************************************************************************)
M_Accept(c) ==
    /\ prog = "main" /\ lpc = "accept"
    /\ c = naccepted + 1 /\ c <= limit
    /\ naccepted' = c
    /\ pc' = [pc EXCEPT ![c] = "m_auth"]
    /\ csock' = [csock EXCEPT ![c] = "open"]
    /\ UNCHANGED <<codecvars, prog, wide, limit, lpc, awaited, loc, wlog, hist, result,
                   dsock, up, down>>

M_AcceptFail ==
    /\ prog = "main" /\ lpc = "accept"
    /\ lpc' = "stopped"
    /\ UNCHANGED <<codecvars, prog, wide, limit, awaited, naccepted, connvars>>

\* AwaitingAuth: NotAcceptable closes the connection, NoAuth proceeds.
M_Auth(c) ==
    /\ At(c, "main", "m_auth")
    /\ \E s \in AuthInputs, w \in WriteOutcomes :
           LET r == AuthenticationRequest_read_from(s)
               wr == Server_write("auth",
                        AuthenticationResponse_to_bytes(AuthMethod(r.methods)),
                        w)
           IN  IF ~r.ok
               THEN /\ Return(c, "Err:io", <<"auth_read">>, <<>>)
                    /\ loc' = [loc EXCEPT ![c].auth_in = s,
                                          ![c].auth_res = r]
               ELSE IF w = "ok" /\ ~required_authentication(r.methods)
               THEN /\ loc' = [loc EXCEPT ![c].methods = r.methods]
                    /\ Goto(c, "m_request", <<"auth_read", "auth_write">>,
                            <<wr>>)
                    /\ UNCHANGED dsock
               ELSE /\ loc' = [loc EXCEPT ![c].methods = r.methods]
                    /\ Return(c, IF w = "ok" THEN "Ok" ELSE "Err:io",
                              <<"auth_read", "auth_write">>, <<wr>>)
    /\ UNCHANGED <<outside, up, down>>

\* AwaitingRequest: a decode failure is answered with the peer address.
M_Request(c) ==
    /\ At(c, "main", "m_request")
    /\ \E s \in ReqInputs, w \in WriteOutcomes :
           LET r == TcpRequestHeader_read_from(s)
               b == Resp(r.reply, PeerAddr(c))
           IN  IF r.ok
               THEN /\ loc' = [loc EXCEPT ![c].header = r.val]
                    /\ Goto(c, "m_dispatch", <<"req_read">>, <<>>)
                    /\ UNCHANGED dsock
               ELSE /\ loc' = [loc EXCEPT ![c].e = r.reply, ![c].e_io = r.io]
                    /\ Return(c, Outcome(b, w, "Ok"),
                              <<"req_read", "resp_write">>,
                              Writes(b, Server_write("resp", b.bytes, w)))
    /\ UNCHANGED <<outside, up, down>>

\* Dispatched: every branch writes a response before it ends or relays.
M_Dispatch(c) ==
    /\ At(c, "main", "m_dispatch")
    /\ \E d \in DnsOutcomes, o \in ConnectOutcomes, w \in WriteOutcomes :
           LET addr == loc[c].header.address
               isdn == addr.t = "dn"
               to == IF isdn THEN SocketAddrV4(ResolvedIp, addr.port) ELSE addr
               look == IF isdn THEN <<"lookup", "dns">> ELSE <<"lookup">>
           IN  IF loc[c].header.command # "Connect"
               THEN LET b == Resp(Reply("CommandNotSupported"), addr)
                    IN  /\ Return(c, Outcome(b, w, "Ok"), <<"resp_write">>,
                                  Writes(b, Server_write("resp", b.bytes, w)))
                        /\ UNCHANGED loc
               ELSE IF isdn /\ d = "fail"
               THEN LET b == Resp(Reply("HostUnreachable"), addr)
                    IN  /\ Return(c, Outcome(b, w, "Ok"),
                                  look \o <<"resp_write">>,
                                  Writes(b, Server_write("resp", b.bytes, w)))
                        /\ UNCHANGED loc
               ELSE IF o # "ok"
               THEN LET b == Resp(Replies_from_io_error(o), to)
                    IN  /\ Return(c, Outcome(b, w, "Ok"),
                                  look \o <<"connect", "resp_write">>,
                                  Writes(b, Server_write("resp", b.bytes, w)))
                        /\ loc' = [loc EXCEPT ![c].dest_addr = to]
               ELSE LET b == Resp(Reply("Succeeded"), to)
                        wr == Server_write("resp", b.bytes, w)
                    IN  /\ loc' = [loc EXCEPT ![c].dest_addr = to]
                        /\ IF ~b.panic /\ w = "ok"
                           THEN /\ pc' = [pc EXCEPT ![c] = "m_relay"]
                                /\ hist' = [hist EXCEPT ![c] = @ \o look \o
                                      <<"connect", "resp_write", "relay">>]
                                /\ wlog' = [wlog EXCEPT ![c] = @ \o <<wr>>]
                                /\ dsock' = [dsock EXCEPT ![c] = "open"]
                                /\ UNCHANGED <<result, csock>>
                           ELSE Return(c, Outcome(b, w, "Ok"),
                                       look \o <<"connect", "resp_write">>,
                                       Writes(b, wr))
    /\ UNCHANGED <<outside, up, down>>

M_CopyUp(c) == At(c, "main", "m_relay") /\ CopyUp(c) /\ UNCHANGED outside

M_CopyDown(c) ==
    At(c, "main", "m_relay") /\ CopyDown(c) /\ UNCHANGED outside

M_RelayEnd(c) ==
    /\ At(c, "main", "m_relay")
    /\ \E how \in RaceEnds(c) :
           Return(c, IF how = "error" THEN "Err:io" ELSE "Ok", <<how>>, <<>>)
    /\ UNCHANGED <<outside, loc, up, down>>

(***************************************************************************)
(* The peers.  A client may send payload once its request is decoded; the  *)
(* bytes wait in the socket until a copy loop reads them.  The k-th byte a *)
(* client sends is k, the k-th byte a destination sends is 100 + k.  With  *)
(* many clients at once (wide = FALSE) a peer sends during the relay only  *)
(* and shuts its write side after its last byte.                           *)
(***************************************************************************)
RelayPcs == {"s_relay", "a_relay", "b_relay", "m_relay"}

ConnectPcs ==
    IF wide
    THEN RelayPcs \cup {"s_lookup", "s_connect", "s_reply", "a_connect",
                        "a_host_write", "b_connect", "b_reply"}
    ELSE RelayPcs

MayShut(f) == wide \/ Len(f.sent) = PayloadCap

ClientSend(c) ==
    /\ lpc # "stopped" /\ csock[c] = "open" /\ pc[c] \in ConnectPcs
    /\ ~up[c].eof /\ Len(up[c].sent) < PayloadCap
    /\ up' = [up EXCEPT ![c].sent = Append(@, Len(@) + 1)]
    /\ UNCHANGED <<outside, pc, loc, wlog, hist, result, csock, dsock, down>>

ClientShutdown(c) ==
    /\ lpc # "stopped" /\ csock[c] = "open" /\ pc[c] \in ConnectPcs
    /\ ~up[c].eof /\ MayShut(up[c])
    /\ up' = [up EXCEPT ![c].eof = TRUE]
    /\ UNCHANGED <<outside, pc, loc, wlog, hist, result, csock, dsock, down>>

DestSend(c) ==
    /\ lpc # "stopped" /\ dsock[c] = "open" /\ (wide \/ pc[c] \in RelayPcs)
    /\ ~down[c].eof /\ Len(down[c].sent) < PayloadCap
    /\ down' = [down EXCEPT ![c].sent = Append(@, 100 + Len(@) + 1)]
    /\ UNCHANGED <<outside, pc, loc, wlog, hist, result, csock, dsock, up>>

DestShutdown(c) ==
    /\ lpc # "stopped" /\ dsock[c] = "open" /\ (wide \/ pc[c] \in RelayPcs)
    /\ ~down[c].eof /\ MayShut(down[c])
    /\ down' = [down EXCEPT ![c].eof = TRUE]
    /\ UNCHANGED <<outside, pc, loc, wlog, hist, result, csock, dsock, up>>

(***************************************************************************)
(* The specifications.  Spec: one client with the full input sets, under   *)
(* each of the programs.  SpecServer: MaxConns clients at once.            *)
(***************************************************************************)
Progs == {"server", "a", "b", "main"}

NoJob == [addr |-> NoAddress, tail |-> <<>>]

(***************************************************************************)
(* Codec runs: an Address is encoded with to_bytes and the bytes, followed *)
(* by whatever the stream holds next, are decoded with read_from.          *)
(***************************************************************************)
Ports == {0, 80, 8080, 65535}

Ipv4s == {<<127, 0, 0, 1>>, <<0, 0, 0, 0>>, <<255, 255, 255, 255>>}

Ipv6s ==
    {<<8193, 3512, 0, 0, 0, 0, 0, 1>>, [i \in 1..8 |-> 0],
     [i \in 1..8 |-> 65535], <<1, 2, 3, 4, 5, 6, 7, 8>>}

\* Strings: "", "a", "a.b", U+00E9, and 255 and 256 times "a".
Names ==
    {<<>>, <<97>>, <<97, 46, 98>>, <<195, 169>>, Fill(U8_MAX, 97),
     Fill(U8_MAX + 1, 97)}

Addresses ==
    {SocketAddrV4(ip, p) : ip \in Ipv4s, p \in Ports}
    \cup {SocketAddrV6(ip, p, f, sc) :
             ip \in Ipv6s, p \in Ports, f \in {0, 1}, sc \in {0, 3}}
    \cup {DomainNameAddress(n, p) : n \in Names, p \in Ports}

RECURSIVE SeqsUpTo(_, _)
SeqsUpTo(S, n) ==
    IF n = 0 THEN {<<>>}
    ELSE LET shorter == SeqsUpTo(S, n - 1)
         IN  shorter \cup {Append(q, x) : q \in shorter, x \in S}

Tails == SeqsUpTo({0, 3}, MaxTail)

Encode ==
    /\ out.stage = "idle"
    /\ out' = [out EXCEPT !.stage = "encoded",
                          !.enc = Address_to_bytes(job.addr)]
    /\ UNCHANGED <<job, loopvars, connvars>>

Decode ==
    /\ out.stage = "encoded" /\ ~out.enc.panic
    /\ out' = [out EXCEPT !.stage = "decoded",
                          !.dec = Address_read_from(out.enc.bytes \o job.tail)]
    /\ UNCHANGED <<job, loopvars, connvars>>

NoOut == [stage |-> "idle", enc |-> [panic |-> FALSE, bytes |-> <<>>],
          dec |-> Ok(NoAddress, <<>>)]

InitConns(w, n) ==
    /\ prog \in Progs
    /\ wide = w
    /\ limit = n
    /\ lpc = "accept"
    /\ awaited = 0
    /\ naccepted = 0
    /\ pc = [c \in Conns |-> "idle"]
    /\ loc = [c \in Conns |-> NoLoc]
    /\ wlog = [c \in Conns |-> <<>>]
    /\ hist = [c \in Conns |-> <<>>]
    /\ result = [c \in Conns |-> "none"]
    /\ csock = [c \in Conns |-> "none"]
    /\ dsock = [c \in Conns |-> "none"]
    /\ up = [c \in Conns |-> NoFlow]
    /\ down = [c \in Conns |-> NoFlow]

Init == InitConns(TRUE, 1) /\ job = NoJob /\ out = NoOut

InitServer == InitConns(FALSE, MaxConns) /\ job = NoJob /\ out = NoOut

Next ==
    \/ S_Await
    \/ S_AcceptFail
    \/ A_AcceptFail
    \/ B_AcceptFail
    \/ M_AcceptFail
    \/ \E c \in Conns :
          \/ S_Accept(c)
          \/ S_AuthRead(c)
          \/ S_AuthWrite(c)
          \/ S_ReqRead(c)
          \/ S_ErrReply(c)
          \/ S_Lookup(c)
          \/ S_Connect(c)
          \/ S_Reply(c)
          \/ S_CopyUp(c)
          \/ S_CopyDown(c)
          \/ S_RelayEnd(c)
          \/ S_CmdNotSupported(c)
          \/ A_Accept(c)
          \/ A_PeerAddr(c)
          \/ A_AuthRead(c)
          \/ A_AuthWrite(c)
          \/ A_ReqRead(c)
          \/ A_ErrReply(c)
          \/ A_Connect(c)
          \/ A_HostWrite(c)
          \/ A_CopyUp(c)
          \/ A_CopyDown(c)
          \/ A_RelayEnd(c)
          \/ A_CmdNotSupported(c)
          \/ B_Accept(c)
          \/ B_GetAddr(c)
          \/ B_Connect(c)
          \/ B_Reply(c)
          \/ B_CopyUp(c)
          \/ B_CopyDown(c)
          \/ B_RelayEnd(c)
          \/ M_Accept(c)
          \/ M_Auth(c)
          \/ M_Request(c)
          \/ M_Dispatch(c)
          \/ M_CopyUp(c)
          \/ M_CopyDown(c)
          \/ M_RelayEnd(c)
          \/ ClientSend(c)
          \/ ClientShutdown(c)
          \/ DestSend(c)
          \/ DestShutdown(c)

Spec == Init /\ [][Next]_vars

InitCodec ==
    /\ InitConns(TRUE, 0)
    /\ prog = "server"
    /\ job \in [addr : Addresses, tail : Tails]
    /\ out = NoOut

NextCodec == Encode \/ Decode

SpecCodec == InitCodec /\ [][NextCodec]_vars

SpecServer == InitServer /\ [][Next]_vars

(***************************************************************************)
(* Wire runs: one operation of the codec applied to one input.  A job is   *)
(* the input, out.val what the operation returned.                         *)
(***************************************************************************)
MethodBytes == {0, 1, 2, 128, 255}

\* Authentication requests: every method list of up to MaxMethods bytes,
\* three lists of 255 methods, and frames that do not decode.
AuthFrames ==
    {<<VERSION, Len(m)>> \o m :
        m \in SeqsUpTo(MethodBytes, MaxMethods)
               \cup {Fill(U8_MAX, 2), Fill(U8_MAX, 128),
                     Append(Fill(U8_MAX - 1, 128), 0)}}
    \cup {<<4, 1, 0>>, <<VERSION, 2, 0>>, <<VERSION>>, <<>>}

\* Encoded addresses, well-formed and not.
AddrSamples ==
    {<<1, 127, 0, 0, 1, 31, 144>>,
     <<4>> \o Flat16(<<8193, 3512, 0, 0, 0, 0, 0, 1>>) \o <<1, 187>>,
     <<3, 1, 97, 0, 80>>, <<2, 0, 0>>, <<3, 1, 255, 0, 80>>, <<1, 127>>,
     <<3, 2, 97>>, <<>>}

\* Request headers: version, command, reserved byte, address.
ReqFrames ==
    {<<v, c, r>> \o a :
        v \in {VERSION, 4, 0}, c \in {0, 1, 2, 3, 4, 255}, r \in {0, 1, 255},
        a \in AddrSamples}
    \cup {<<>>, <<VERSION>>, <<4>>, <<VERSION, 1>>, <<4, 9>>}

\* Addresses on the wire: every address-type byte before each tail, and
\* domain names declared n bytes long of which k bytes (port included)
\* arrive.
AddrFrames ==
    {<<t>> \o tl : t \in 0..U8_MAX, tl \in Tails}
    \cup {<<3, n>> \o Fill(k, 97) : n \in {0, 1, 2}, k \in 0..4}
    \cup {<<3, U8_MAX>> \o Fill(k, 97) : k \in {0, 1, 254, 255, 256, 257}}
    \cup AddrSamples

AllReplies == {Replies_from_u8(code) : code \in {0, 1, 2, 3, 4, 5, 6, 7, 8, 66}}

WireJobs ==
    {[kind |-> "auth", bytes |-> b] : b \in AuthFrames}
    \cup {[kind |-> "req", bytes |-> b] : b \in ReqFrames}
    \cup {[kind |-> "addr", bytes |-> b] : b \in AddrFrames}
    \cup {[kind |-> "len", addr |-> a] : a \in Addresses}
    \cup {[kind |-> "resp", reply |-> r, addr |-> a] :
             r \in AllReplies, a \in Addresses}
    \cup {[kind |-> "method", byte |-> b] : b \in 0..U8_MAX}

NoRun == [stage |-> "idle", val |-> <<>>]

Run(val) ==
    /\ out.stage = "idle"
    /\ out' = [stage |-> "done", val |-> val]
    /\ UNCHANGED <<job, loopvars, connvars>>

\* AuthenticationRequest::read_from, then required_authentication on the
\* decoded request.
ReadAuth ==
    /\ job.kind = "auth"
    /\ LET r == AuthenticationRequest_read_from(job.bytes)
       IN  Run([request |-> r,
                required |-> IF r.ok THEN required_authentication(r.methods)
                             ELSE TRUE])

ReadRequest ==
    /\ job.kind = "req"
    /\ Run(TcpRequestHeader_read_from(job.bytes))

ReadAddress ==
    /\ job.kind = "addr"
    /\ Run(Address_read_from(job.bytes))

\* Address::len beside Address::to_bytes.
MeasureAddress ==
    /\ job.kind = "len"
    /\ Run([len |-> Address_len(job.addr),
            enc |-> Address_to_bytes(job.addr)])

WriteResponse ==
    /\ job.kind = "resp"
    /\ Run(TcpResponseHeader_to_bytes(into_response(job.reply, job.addr)))

\* Method::from_u8, then as_u8 on the variant.
ConvertMethod ==
    /\ job.kind = "method"
    /\ LET m == Method_from_u8(job.byte)
       IN  Run([method |-> m, byte |-> Method_as_u8(m)])

InitWire ==
    /\ InitConns(TRUE, 0)
    /\ prog = "server"
    /\ job \in WireJobs
    /\ out = NoRun

NextWire ==
    \/ ReadAuth
    \/ ReadRequest
    \/ ReadAddress
    \/ MeasureAddress
    \/ WriteResponse
    \/ ConvertMethod

SpecWire == InitWire /\ [][NextWire]_vars

(***************************************************************************)
(* What the claims below speak about.                                      *)
(***************************************************************************)
IsResp(w) == w.kind = "resp"

\* The response headers connection c's handler has written, in order.
RespWrites(c) == SelectSeq(wlog[c], IsResp)

\* What a client decodes from the bytes of one written response header.
Seen(w) == TcpResponseHeader_read_from(w.bytes)

Has(c, ev) == \E i \in 1..Len(hist[c]) : hist[c][i] = ev

Pos(c, ev) == CHOOSE i \in 1..Len(hist[c]) : hist[c][i] = ev

EndsWith(c, evs) ==
    /\ Len(hist[c]) >= Len(evs)
    /\ SubSeq(hist[c], Len(hist[c]) - Len(evs) + 1, Len(hist[c])) = evs

\* The TcpRequestHeader decode of connection c failed (server.rs, a.rs).
DecodeFailed(c) == prog \in {"server", "a"} /\ loc[c].e # NoReply

\* server.rs 60: peer_addr() failed after the decode failure.
PeerAddrFailed(c) ==
    prog = "server" /\ EndsWith(c, <<"req_read", "peer_addr", "close">>)

\* C1 as stated: whenever decoding the TcpRequestHeader fails, the handler
\* writes exactly one TcpResponseHeader with the error's reply code and the
\* client's peer address, then terminates with that error, and attempts no
\* outbound connection.
C1_AsStated ==
    \A c \in Conns :
        (DecodeFailed(c) /\ pc[c] = "done") =>
            /\ Len(RespWrites(c)) = 1
            /\ Seen(RespWrites(c)[1]).ok
            /\ Seen(RespWrites(c)[1]).val =
                   [reply |-> loc[c].e, address |-> PeerAddr(c)]
            /\ result[c] = "Err:decode"
            /\ ~Has(c, "connect")

\* C1, amended: whenever decoding the TcpRequestHeader fails, no outbound
\* connection is attempted and the handler issues one TcpResponseHeader
\* write with the error's reply code and the client's peer address, after
\* which it terminates: with the decode error when the write succeeded,
\* with the write's I/O error when it failed.  In server.rs the response is
\* skipped, and the I/O error returned, when peer_addr() fails.
C1_DecodeFailureAnswered ==
    \A c \in Conns :
        DecodeFailed(c) =>
            /\ ~Has(c, "connect") /\ ~Has(c, "lookup") /\ ~Has(c, "relay")
            /\ dsock[c] = "none"
            /\ pc[c] \in {"s_err", "a_err", "done"}
            /\ pc[c] # "done" => RespWrites(c) = <<>>
            /\ pc[c] = "done" =>
                 IF PeerAddrFailed(c)
                 THEN RespWrites(c) = <<>> /\ result[c] = "Err:io"
                 ELSE /\ Len(RespWrites(c)) = 1
                      /\ Seen(RespWrites(c)[1]).ok
                      /\ Seen(RespWrites(c)[1]).val =
                             [reply |-> loc[c].e, address |-> PeerAddr(c)]
                      /\ EndsWith(c, <<"resp_write", "close">>)
                      /\ result[c] = IF RespWrites(c)[1].res = "ok"
                                     THEN "Err:decode" ELSE "Err:io"

\* C1's case: an unsupported address type was answered and the handler
\* ended with the decode error.
C1_Witness ==
    \E c \in Conns :
        /\ prog = "server" /\ pc[c] = "done"
        /\ loc[c].e = Reply("AddressTypeNotSupported")
        /\ Len(RespWrites(c)) = 1 /\ RespWrites(c)[1].res = "ok"
        /\ result[c] = "Err:decode"

\* The request of connection c was decoded with command Bind or
\* UdpAssociate (server.rs, a.rs).
Rejected(c) ==
    /\ prog \in {"server", "a"}
    /\ loc[c].header.command \in {"Bind", "UdpAssociate"}

\* C2: for every decoded request with command Bind or UdpAssociate the
\* handler writes one response header, CommandNotSupported with the
\* requested (unresolved) address, then terminates; on that path it never
\* resolves a name, never opens an outbound connection, never relays.
C2_BindUdpRejected ==
    \A c \in Conns :
        Rejected(c) =>
            /\ ~Has(c, "lookup") /\ ~Has(c, "dns") /\ ~Has(c, "connect")
            /\ ~Has(c, "relay")
            /\ dsock[c] = "none"
            /\ up[c].got = <<>> /\ down[c].got = <<>>
            /\ pc[c] \in {"s_cmd", "a_cmd", "done"}
            /\ pc[c] # "done" => RespWrites(c) = <<>>
            /\ pc[c] = "done" =>
                 /\ Len(RespWrites(c)) = 1
                 /\ Seen(RespWrites(c)[1]).ok
                 /\ Seen(RespWrites(c)[1]).val =
                        [reply |-> Reply("CommandNotSupported"),
                         address |-> loc[c].header.address]
                 /\ EndsWith(c, <<"req_read", "resp_write", "close">>)

\* C2's case: UdpAssociate for a domain name was rejected.
C2_Witness ==
    \E c \in Conns :
        /\ prog = "server" /\ pc[c] = "done"
        /\ loc[c].header.command = "UdpAssociate"
        /\ loc[c].header.address.t = "dn"
        /\ Len(RespWrites(c)) = 1 /\ RespWrites(c)[1].res = "ok"

\* C3: for a Connect request, every failure to establish the outbound
\* connection results in a failure response header written to the client
\* before the handler terminates (server.rs, a.rs).
C3_ConnectFailureAnswered ==
    \A c \in Conns :
        (/\ prog \in {"server", "a"}
         /\ pc[c] = "done"
         /\ Has(c, "connect") /\ dsock[c] = "none") =>
            /\ RespWrites(c) # <<>>
            /\ Pos(c, "resp_write") > Pos(c, "connect")

IsSucceeded(w) ==
    IsResp(w) /\ Seen(w).ok /\ Seen(w).val.reply = Reply("Succeeded")

C5_NotAcceptableCloses ==
    \A c \in Conns :
        (/\ prog \in {"server", "a"}
         /\ \E i \in 1..Len(wlog[c]) :
               /\ wlog[c][i].kind = "auth"
               /\ wlog[c][i].bytes =
                      <<VERSION, Method_as_u8(Method("NotAcceptable"))>>) =>
            /\ ~Has(c, "req_read")
            /\ ~Has(c, "connect")
            /\ ~Has(c, "relay")

\* The place of a step in the order auth-request read, auth-response
\* write, request-header read, dispatch, response write, relay, close.
Rank(ev) ==
    CASE ev = "auth_read" -> 1
      [] ev = "auth_write" -> 2
      [] ev = "req_read" -> 3
      [] ev \in {"peer_addr", "lookup", "dns", "connect"} -> 4
      [] ev = "resp_write" -> 5
      [] ev \in {"relay", "eof_up", "eof_down", "error"} -> 6
      [] ev = "close" -> 7

\* C6: within one connection of server.rs the steps happen in the order
\* auth-request read, auth-response write, request-header read, dispatch
\* (resolve, connect), response write, relay, close, none of them twice:
\* the request header is read only after the auth response is written, an
\* outbound connection is attempted only after the request header is
\* decoded, and client bytes reach the destination only after the response
\* header is written.
C6_StepsInOrder ==
    \A c \in Conns :
        prog = "server" =>
            /\ \A i, j \in 1..Len(hist[c]) :
                  i < j => /\ Rank(hist[c][i]) <= Rank(hist[c][j])
                           /\ hist[c][i] # hist[c][j]
            /\ Has(c, "auth_write") => Has(c, "auth_read")
            /\ Has(c, "req_read") =>
                  /\ Has(c, "auth_write")
                  /\ Len(wlog[c]) >= 1
                  /\ wlog[c][1].kind = "auth" /\ wlog[c][1].res = "ok"
            /\ (Has(c, "lookup") \/ Has(c, "connect")) =>
                  /\ Has(c, "req_read")
                  /\ loc[c].header.command = "Connect"
                  /\ loc[c].header.address # NoAddress
            /\ Has(c, "connect") => Has(c, "lookup")
            /\ (up[c].got # <<>> \/ down[c].got # <<>> \/ Has(c, "relay")) =>
                  /\ Has(c, "connect") /\ Has(c, "resp_write")
                  /\ RespWrites(c) # <<>> /\ RespWrites(c)[1].res = "ok"
            /\ pc[c] = "done" <=> Has(c, "close")

\* C6's case: a whole connection, from the auth request to the close after
\* a relay that carried bytes.
C6_Witness ==
    \E c \in Conns :
        /\ prog = "server"
        /\ hist[c] = <<"auth_read", "auth_write", "req_read", "lookup", "dns",
                       "connect", "resp_write", "relay", "eof_up", "close">>
        /\ up[c].got # <<>>

RelayEnd(c) == S_RelayEnd(c) \/ A_RelayEnd(c) \/ B_RelayEnd(c)

\* The programs whose handler is in the sources.
Sourced == prog \in {"server", "a", "b"}

RelayEndBy(c, how) == RelayEnd(c) /\ EndsWith(c, <<how, "close">>)'

C7_State ==
    \A c \in Conns :
        Sourced =>
            /\ (pc[c] \in RelayPcs /\ lpc # "stopped" /\ Complete(up[c])) =>
                  ENABLED RelayEndBy(c, "eof_up")
            /\ (pc[c] \in RelayPcs /\ lpc # "stopped" /\ Complete(down[c])) =>
                  ENABLED RelayEndBy(c, "eof_down")
            /\ pc[c] = "done" => csock[c] = "closed" /\ dsock[c] # "open"

C7_Step ==
    \A c \in Conns :
        Sourced =>
            /\ (pc[c] \in RelayPcs /\ pc'[c] # pc[c]) =>
                  /\ pc'[c] = "done"
                  /\ csock'[c] = "closed" /\ dsock'[c] = "closed"
                  /\ up'[c] = up[c] /\ down'[c] = down[c]
            /\ pc[c] = "done" =>
                  /\ pc'[c] = "done"
                  /\ up'[c] = up[c] /\ down'[c] = down[c]
                  /\ wlog'[c] = wlog[c]

\* C7: in the relay, as soon as either copy direction has completed (its
\* source at end of stream and drained, or an I/O error) the relay can end
\* without the other direction; when it ends the handler returns, both
\* sockets are closed, and from then on no byte is delivered in either
\* direction.
C7_RelayEndsOnFirst == []C7_State /\ [][C7_Step]_vars

\* C7's case: the relay ended on the client's end of stream while bytes of
\* the destination were still waiting and its stream was still open.
C7_Witness ==
    \E c \in Conns :
        /\ prog = "server"
        /\ pc[c] = "done" /\ Has(c, "eof_up")
        /\ Pending(down[c]) # <<>> /\ ~down[c].eof
        /\ csock[c] = "closed" /\ dsock[c] = "closed"

Accept ==
    \E c \in Conns : S_Accept(c) \/ A_Accept(c) \/ B_Accept(c) \/ M_Accept(c)

AcceptFail == S_AcceptFail \/ A_AcceptFail \/ B_AcceptFail \/ M_AcceptFail

\* C8: while an accepted connection is still at some stage of its handler
\* (waiting for the client's bytes, connecting, relaying), the listener can
\* accept a further connection.
C8_AcceptWhileBusy ==
    (/\ lpc # "stopped"
     /\ naccepted < limit
     /\ \E c \in Conns : pc[c] \notin {"idle", "done"}) => ENABLED Accept

ConnState(d) ==
    <<pc[d], loc[d], wlog[d], hist[d], result[d], csock[d], dsock[d], up[d],
      down[d]>>

Failed(c) == pc[c] = "done" /\ result[c] \notin {"none", "Ok"}

C9_State ==
    /\ (Sourced /\ lpc = "accept" /\ naccepted < limit) => ENABLED Accept
    /\ (lpc = "await" /\ pc[awaited] = "done") => ENABLED S_Await
    /\ lpc = "await" => prog = "server" /\ awaited \in Conns

C9_Step ==
    /\ \A c \in Conns :
          (Sourced /\ ~Failed(c) /\ Failed(c)') =>
              /\ lpc' = lpc /\ naccepted' = naccepted
              /\ \A d \in Conns \ {c} : ConnState(d)' = ConnState(d)
    /\ (lpc # "stopped" /\ lpc' = "stopped") => AcceptFail

\* C9: when a handler ends with an error, the accept loop keeps running
\* and every other connection's task is untouched: the step that ends the
\* handler changes nothing of the loop or of another connection, the loop
\* still accepts (server.rs: once the awaited task is done), and only a
\* failing accept() stops the server.
C9_HandlerErrorIsLocal == []C9_State /\ [][C9_Step]_vars

\* C9's case: the first connection ended with an error and a connection
\* accepted after it was served to the end.
C9_Witness ==
    /\ prog = "server"
    /\ Failed(1)
    /\ pc[2] = "done" /\ result[2] = "Ok" /\ Has(2, "relay")

\* C10 as stated: for every constructible Address, decoding the bytes
\* to_bytes produced yields an equal Address and consumes exactly them.
C10_AsStated ==
    out.stage = "decoded" =>
        /\ out.dec.ok
        /\ out.dec.val = job.addr
        /\ out.dec.rest = job.tail

\* C10, amended: for every Address to_bytes can encode (a domain name of
\* at most 255 bytes), decoding the bytes it produced consumes exactly them
\* and yields the Address with the flow-info and scope-id of an IPv6 socket
\* address set to zero: an Address equal to the original exactly when those
\* two fields were zero.
C10_RoundTrip ==
    out.stage = "decoded" =>
        /\ out.dec.ok
        /\ out.dec.val = [job.addr EXCEPT !.flowinfo = 0, !.scope_id = 0]
        /\ out.dec.rest = job.tail
        /\ (out.dec.val = job.addr) <=>
               (job.addr.flowinfo = 0 /\ job.addr.scope_id = 0)

\* C10's case: a domain name of 255 bytes, followed by further bytes.
C10_Witness ==
    /\ out.stage = "decoded"
    /\ job.addr.t = "dn" /\ Len(job.addr.name) = U8_MAX
    /\ job.tail # <<>>
    /\ out.dec.val = job.addr

(***************************************************************************)
(* The codec, one operation at a time (SpecWire).                          *)
(***************************************************************************)
Ran(kind) == job.kind = kind /\ out.stage = "done"

\* The method bytes an authentication request offers.
Offered(s) == {s[2 + i] : i \in 1..s[2]}

\* C11: for every decoded AuthenticationRequest (any method count, any
\* method bytes, duplicates and unrecognized codes allowed),
\* required_authentication() returns false if and only if the byte 0x00
\* occurs among the offered method bytes.
C11_NoAuthDecides ==
    (Ran("auth") /\ out.val.request.ok) =>
        (out.val.required = FALSE <=> 0 \in Offered(job.bytes))

\* C11's case: 255 methods, unrecognized codes, NoAuth the last of them.
C11_Witness ==
    /\ Ran("auth") /\ out.val.request.ok
    /\ job.bytes[2] = U8_MAX
    /\ Offered(job.bytes) = {0, 128}
    /\ out.val.required = FALSE

\* C12: TcpRequestHeader decoding reads version, command and reserved
\* byte, then the address: a version other than 5 fails with
\* ConnectionRefused whatever the command, a command outside {1,2,3} fails
\* with CommandNotSupported with no address byte consumed, the reserved
\* byte never affects the result, and an error of the address stage is
\* propagated with its reply unchanged.
C12_RequestDecodeOrder ==
    (Ran("req") /\ Len(job.bytes) >= 3) =>
        LET s == job.bytes
            r == out.val
            a == Address_read_from(Drop(s, 3))
        IN  /\ s[1] # 5 =>
                  /\ ~r.ok /\ ~r.io
                  /\ r.reply = Reply("ConnectionRefused")
            /\ (s[1] = 5 /\ s[2] \notin {1, 2, 3}) =>
                  /\ ~r.ok /\ ~r.io
                  /\ r.reply = Reply("CommandNotSupported")
                  /\ r.rest = Drop(s, 3)
            /\ (s[1] = 5 /\ s[2] \in {1, 2, 3}) =>
                  /\ r.ok = a.ok
                  /\ a.ok =>
                        /\ r.val.address = a.val
                        /\ r.val.command =
                               <<"Connect", "Bind", "UdpAssociate">>[s[2]]
                        /\ r.rest = a.rest
                  /\ ~a.ok => r.reply = a.reply /\ r.io = a.io
            /\ r = TcpRequestHeader_read_from([s EXCEPT ![3] = 0])

\* C12's case: a bad version together with a bad command and a nonzero
\* reserved byte.
C12_Witness ==
    /\ Ran("req") /\ Len(job.bytes) > 3
    /\ job.bytes[1] = 4 /\ job.bytes[2] = 255 /\ job.bytes[3] = 1
    /\ out.val.reply = Reply("ConnectionRefused")

\* C13: Address decoding of an address-type byte outside {1, 3, 4} fails
\* with reply AddressTypeNotSupported after consuming exactly that byte.
C13_BadAddressType ==
    (Ran("addr") /\ Len(job.bytes) >= 1 /\ job.bytes[1] \notin {1, 3, 4}) =>
        /\ ~out.val.ok /\ ~out.val.io
        /\ out.val.reply = Reply("AddressTypeNotSupported")
        /\ out.val.rest = Drop(job.bytes, 1)

\* C13's case: address type 0 with a byte after it.
C13_Witness ==
    /\ Ran("addr") /\ Len(job.bytes) = 2 /\ job.bytes[1] = 0
    /\ out.val.reply = Reply("AddressTypeNotSupported")
    /\ out.val.rest = <<job.bytes[2]>>

\* A domain-name address declared s[2] bytes long whose stream ends before
\* the name and the two port bytes are complete.
Truncated(s) == Len(s) >= 2 /\ s[1] = 3 /\ Len(s) - 2 < s[2] + 2

\* C14: decoding a domain address whose declared length is n when the
\* source ends before n name bytes plus 2 port bytes are available fails
\* with the error an I/O error converts to; no Address is returned.
C14_ShortDomainFails ==
    (Ran("addr") /\ Truncated(job.bytes)) =>
        /\ ~out.val.ok
        /\ out.val.io
        /\ out.val.reply = Reply("GeneralFailure")
        /\ out.val.val = NoAddress

\* C14's case: 255 bytes declared, the second port byte missing.
C14_Witness ==
    /\ Ran("addr") /\ Truncated(job.bytes)
    /\ job.bytes[2] = U8_MAX /\ Len(job.bytes) = 2 + U8_MAX + 1
    /\ out.val.io

\* C15: for every Address with a domain name of at most 255 bytes, len()
\* equals the number of bytes to_bytes() produces: 7 for IPv4, 19 for IPv6,
\* 4 + name length for a domain name.
C15_LenMatchesEncoding ==
    (Ran("len") /\ Len(job.addr.name) <= 255) =>
        /\ ~out.val.enc.panic
        /\ out.val.len = Len(out.val.enc.bytes)
        /\ out.val.len = CASE job.addr.t = "v4" -> 7
                           [] job.addr.t = "v6" -> 19
                           [] job.addr.t = "dn" -> 4 + Len(job.addr.name)

\* C15's case: a domain name of 255 bytes.
C15_Witness ==
    /\ Ran("len") /\ job.addr.t = "dn" /\ Len(job.addr.name) = 255
    /\ out.val.len = 259

ResponseLayout ==
    /\ ~out.val.panic
    /\ Len(out.val.bytes) = 3 + Address_len(job.addr)
    /\ out.val.bytes[1] = 5
    /\ out.val.bytes[2] = Replies_as_u8(job.reply)
    /\ out.val.bytes[3] = 0
    /\ Drop(out.val.bytes, 3) = Address_to_bytes(job.addr).bytes

\* C16 as stated: for every reply and address, TcpResponseHeader::to_bytes
\* produces exactly 3 + address.len() bytes: 0x05, the reply's wire code,
\* 0x00, then the encoded address.
C16_AsStated == Ran("resp") => ResponseLayout

\* C16, amended: for every reply and every address whose domain name is
\* at most 255 bytes, to_bytes produces exactly 3 + address.len() bytes:
\* 0x05, the reply's wire code, 0x00, then the encoded address; for an
\* address with a longer domain name it panics and produces nothing.
C16_ResponseLayout ==
    Ran("resp") =>
        IF Len(job.addr.name) <= 255 THEN ResponseLayout ELSE out.val.panic

\* C16's case: a reply code outside the nine named ones, with a domain
\* name of 255 bytes.
C16_Witness ==
    /\ Ran("resp")
    /\ job.reply.tag = "OtherReply"
    /\ job.addr.t = "dn" /\ Len(job.addr.name) = 255
    /\ Len(out.val.bytes) = 262

\* C17: for every byte b in 0..255, Method::from_u8(b).as_u8() = b, the
\* bytes other than 0x00, 0x01, 0x02 and 0xff being kept by the
\* InvalidMethod variant.
C17_MethodRoundTrip ==
    Ran("method") =>
        /\ out.val.byte = job.byte
        /\ job.byte \notin {0, 1, 2, 255} <=>
               out.val.method.tag = "InvalidMethod"
        /\ out.val.method.tag = "InvalidMethod" =>
               out.val.method.c = job.byte

\* C17's case: the byte 0x80, which names no method.
C17_Witness ==
    /\ Ran("method") /\ job.byte = 128
    /\ out.val.method.tag = "InvalidMethod"
    /\ out.val.byte = 128

(***************************************************************************)
(* The handlers again (Spec).                                              *)
(***************************************************************************)
\* C18: the per-connection entry point does not return an error to its
\* caller for a protocol error: a request whose decoding failed on its
\* content (version, command, address type, encoding) and was answered on
\* the wire is handled internally (server.rs, a.rs).
C18_ProtocolErrorsStayInside ==
    \A c \in Conns :
        (/\ DecodeFailed(c) /\ ~loc[c].e_io
         /\ pc[c] = "done"
         /\ Len(RespWrites(c)) = 1 /\ RespWrites(c)[1].res = "ok") =>
            result[c] = "Ok"

\* Name resolution failed on connection c (server.rs).
LookupFailed(c) ==
    prog = "server" /\ Has(c, "dns") /\ loc[c].dest_addr = NoAddress

C20_ResponsesFlushed ==
    \A c \in Conns :
        Sourced =>
            \A i \in 1..Len(wlog[c]) :
                (wlog[c][i].kind \in {"auth", "resp"}
                    /\ wlog[c][i].res # "write_err") => wlog[c][i].flush

IsPrefix(p, q) == Len(p) <= Len(q) /\ p = Take(q, Len(p))

C21_State ==
    \A c \in Conns :
        prog \in {"server", "a"} =>
            /\ IsPrefix(up[c].got, up[c].sent)
            /\ IsPrefix(down[c].got, down[c].sent)
            /\ (pc[c] \in RelayPcs /\ lpc # "stopped"
                    /\ Pending(up[c]) # <<>>) =>
                  ENABLED (S_CopyUp(c) \/ A_CopyUp(c))
            /\ (pc[c] \in RelayPcs /\ lpc # "stopped"
                    /\ Pending(down[c]) # <<>>) =>
                  ENABLED (S_CopyDown(c) \/ A_CopyDown(c))

C21_Step ==
    \A c \in Conns :
        prog \in {"server", "a"} =>
            /\ IsPrefix(up[c].got, up'[c].got)
            /\ IsPrefix(down[c].got, down'[c].got)

\* C21: at every moment of the relay the bytes delivered to the
\* destination are a prefix, in order and without duplication, of the
\* bytes the client sent after its request, and the bytes delivered to the
\* client a prefix of the bytes the destination sent; what is delivered
\* only grows, and a direction with bytes waiting can move them whatever
\* the state of the other direction (server.rs, a.rs).
C21_RelayDeliversPrefixes == []C21_State /\ [][C21_Step]_vars

\* C21's case: the relay with one of two client bytes delivered and both
\* bytes of the destination delivered.
C21_Witness ==
    \E c \in Conns :
        /\ prog = "server" /\ pc[c] = "s_relay"
        /\ Len(up[c].sent) = 2 /\ Len(up[c].got) = 1
        /\ Len(down[c].sent) = 2 /\ down[c].got = down[c].sent

\* The authentication request of connection c began with a byte other
\* than 5 (server.rs, a.rs).
BadAuthVersion(c) ==
    /\ prog \in {"server", "a"}
    /\ loc[c].auth_in # <<>> /\ loc[c].auth_in[1] # 5

C23_AddressFailureAnswered ==
    \A c \in Conns :
        /\ prog = "b" /\ pc[c] = "done"
        /\ result[c] \in {"Err:decode", "Err:lookup"}
        => RespWrites(c) # <<>>

\* The addresses connection c's handler holds.
HeldAddresses(c) == {loc[c].header.address, loc[c].dest_addr}

\* A written frame that carries an address decodes again, whole.
WellFormed(w) ==
    CASE w.kind = "resp" ->
             LET r == TcpResponseHeader_read_from(w.bytes)
             IN  r.ok /\ r.rest = <<>>
      [] w.kind = "addr" ->
             LET r == Address_read_from(w.bytes)
             IN  r.ok /\ r.rest = <<>>
      [] OTHER -> TRUE

\* C24: every Address a running connection holds (decoded from the wire or
\* wrapped from a socket address) has a domain name of at most 255 bytes,
\* so no handler fails the length assertion of write_domain_name_address
\* and every frame it writes is well-formed; an Address with a 256-byte
\* name is rejected by the assertion when it is encoded, and no bytes are
\* produced for it.
C24_NamesFitLengthByte ==
    /\ \A c \in Conns :
           Sourced =>
               /\ \A a \in HeldAddresses(c) : Len(a.name) <= U8_MAX
               /\ result[c] # "Panic"
               /\ \A i \in 1..Len(wlog[c]) : WellFormed(wlog[c][i])
    /\ LET long == DomainNameAddress(Fill(U8_MAX + 1, 97), 80)
           b == Resp(Reply("Succeeded"), long)
       IN  /\ Address_to_bytes(long).panic
           /\ b.panic /\ b.bytes = <<>>

\* C24's case: a response header carrying a 255-byte domain name was
\* encoded and written.
C24_Witness ==
    \E c \in Conns :
        /\ prog = "server"
        /\ Len(loc[c].header.address.name) = U8_MAX
        /\ RespWrites(c) # <<>>
        /\ Len(RespWrites(c)[1].bytes) = 3 + 1 + 1 + U8_MAX + 2

IsAuth(w) == w.kind = "auth"

\* The authentication responses connection c's handler has written.
AuthWrites(c) == SelectSeq(wlog[c], IsAuth)

\* C25: on any single connection the handler writes at most one
\* authentication response and at most one TcpResponseHeader, the
\* authentication response first; what it has written is never taken back,
\* and once a response header is written (failure or Succeeded) no other
\* frame is written to the client by the handler.
C25_State ==
    \A c \in Conns :
        Sourced =>
            /\ Len(AuthWrites(c)) <= 1
            /\ Len(RespWrites(c)) <= 1
            /\ \A i, j \in 1..Len(wlog[c]) :
                   IsResp(wlog[c][i]) /\ IsAuth(wlog[c][j]) => j < i

C25_Step ==
    \A c \in Conns :
        Sourced =>
            /\ IsPrefix(wlog[c], wlog'[c])
            /\ RespWrites(c) # <<>> => RespWrites(c)' = RespWrites(c)
            /\ pc[c] = "done" => wlog'[c] = wlog[c]

C25_OneOfEach == []C25_State /\ [][C25_Step]_vars

\* C25's case: a handler that wrote its authentication response and the
\* Succeeded header, relayed, and ended on a relay error with nothing more
\* written.
C25_Witness ==
    \E c \in Conns :
        /\ prog = "server" /\ pc[c] = "done"
        /\ EndsWith(c, <<"error", "close">>)
        /\ Len(AuthWrites(c)) = 1
        /\ Len(RespWrites(c)) = 1 /\ IsSucceeded(RespWrites(c)[1])

====
